---- MODULE Spec2Model ----
(***************************************************************************)
(* Model of the multi-provider LLM access layer of the news summarizer     *)
(* (WEEK02/LAB M.2.03 API and Integration): the cost ledger (CostTracker), *)
(* the per-provider rate limiter and gateway sends (LLMProviders), the     *)
(* fallback dispatcher (ask_with_fallback), the item pipeline              *)
(* (summarize_article) and the two batch modes (process_articles and       *)
(* process_articles_async).                                                *)
(*                                                                         *)
(* Money is counted in integer units of 1e-8 dollar, so that               *)
(* tokens / 1_000_000 * rate is the exact product tokens * Rate with Rate  *)
(* the price per million tokens in cents.  Time is counted in integer      *)
(* ticks of a non-decreasing clock.                                        *)
(***************************************************************************)
EXTENDS Integers, Sequences, FiniteSets, TLC

VARIABLES
    mode,           \* which driver runs: "ledger", "tokens", "fallback", "seq" or "async"
    total_cost,     \* CostTracker.total_cost
    requests,       \* CostTracker.requests
    ret,            \* outcome of the last call the driver made directly
    calls,          \* history: the token arguments and the returned cost of the
                    \* track_request calls, in order
    now,            \* the clock read by time.time()
    last_call,      \* LLMProviders.openai_last_call / cohere_last_call
    grants,         \* history: per provider, the times written to last_call, in order
    th,             \* per thread: its position in the code and its locals
    n_articles,     \* len(articles) of the batch run
    cursor,         \* process_articles: index of the article the for loop is at
    results,        \* the list the batch run builds and returns
    batch,          \* "running", or "returned" once the batch run has returned
    max_concurrent, \* process_articles_async's max_concurrent
    sem,            \* the value of asyncio.Semaphore(max_concurrent)
    tasks,          \* per article: the state of its process_with_semaphore task
    item_log,       \* history: per article, the sends its pipeline made
    budget_hit      \* history: check_budget raised inside a gateway send

vars ==
    <<mode, total_cost, requests, ret, calls, now, last_call, grants, th, n_articles,
      cursor, results, batch, max_concurrent, sem, tasks, item_log, budget_hit>>

\* ------------------------------------------------------------------ bounds

\* Number of CostTracker calls the ledger driver makes.
MaxLedgerCalls == 3

\* Largest number of articles in a sequential batch run.
MaxArticles == 2

\* Largest number of articles in a concurrent batch run.
MaxAsyncArticles == 2

\* Largest max_concurrent a concurrent batch run is given.
MaxConcurrent == 2

\* How many ticks the clock may advance on its own (besides the sleeps).
MaxTicks == 1

\* Number of ask_with_fallback calls the fallback driver makes.
MaxFallbackCalls == 2

\* Longest text the token counters are applied to, in characters.
MaxTextLen == 13

\* ------------------------------------------------------------ pure helpers

Max(a, b) == IF a >= b THEN a ELSE b

RECURSIVE SumOver(_, _)
\* sum(f(r) for r in s), accumulated left to right like Python's sum
SumOver(s, field) ==
    IF s = <<>> THEN 0
    ELSE SumOver(SubSeq(s, 1, Len(s) - 1), field) + s[Len(s)][field]

\* ------------------------------------------------------------- CostTracker

Providers == {"openai", "cohere"}

KnownModels == {"gpt-4o-mini", "gpt-4o", "command-r-plus-08-2024"}

\* PRICING, in cents per million tokens
PRICING(model) ==
    CASE model = "gpt-4o-mini" -> [input |-> 15, output |-> 60]
      [] model = "gpt-4o" -> [input |-> 250, output |-> 1000]
      [] model = "command-r-plus-08-2024" -> [input |-> 250, output |-> 1000]

\* PRICING.get(model, {"input": 3.0, "output": 15.0})
PricingGet(model) ==
    IF model \in KnownModels THEN PRICING(model) ELSE [input |-> 300, output |-> 1500]

\* cost = input_tokens / 1e6 * pricing["input"] + output_tokens / 1e6 * pricing["output"]
Cost(model, input_tokens, output_tokens) ==
    input_tokens * PricingGet(model).input + output_tokens * PricingGet(model).output

UsageRecord(provider, model, input_tokens, output_tokens) ==
    [provider |-> provider, model |-> model, input_tokens |-> input_tokens,
     output_tokens |-> output_tokens, cost |-> Cost(model, input_tokens, output_tokens)]

\* a faulty variant of BudgetRaises: the comparison is strict
BudgetRaisesStrict(total, daily_budget) == total > daily_budget

\* check_budget: if self.total_cost >= daily_budget: raise
BudgetRaises(total, daily_budget) == total >= daily_budget

\* check_budget: percent_used = total / daily_budget * 100; percent_used >= 90
\* (reached only when total < daily_budget, hence daily_budget > 0)
BudgetWarns(total, daily_budget) == total * 100 >= 90 * daily_budget

\* the outcome of check_budget(daily_budget) on a ledger whose total is `total`
CheckBudgetOutcome(total, daily_budget) ==
    IF BudgetRaises(total, daily_budget)
    THEN [op |-> "check_budget", budget |-> daily_budget, total |-> total,
          raised |-> TRUE, warned |-> FALSE]
    ELSE [op |-> "check_budget", budget |-> daily_budget, total |-> total,
          raised |-> FALSE, warned |-> BudgetWarns(total, daily_budget)]

\* a faulty variant of SummaryOf: the average divides by len(requests) itself
SummaryOfUnguarded(total, reqs) ==
    [op |-> "get_summary",
     total_requests |-> Len(reqs),
     total_cost |-> total,
     total_input_tokens |-> SumOver(reqs, "input_tokens"),
     total_output_tokens |-> SumOver(reqs, "output_tokens"),
     average_cost |-> [num |-> total, den |-> Len(reqs)]]

\* get_summary()
SummaryOf(total, reqs) ==
    [op |-> "get_summary",
     total_requests |-> Len(reqs),
     total_cost |-> total,
     total_input_tokens |-> SumOver(reqs, "input_tokens"),
     total_output_tokens |-> SumOver(reqs, "output_tokens"),
     \* total_cost / max(len(requests), 1), kept as the exact fraction
     average_cost |-> [num |-> total, den |-> Max(Len(reqs), 1)]]

\* ------------------------------------------------------------------- texts

\* A text is a record: the prompts built by summarize_article, the outputs of
\* the providers, the empty string and the sentiment sentinel.
Text(kind, art, by, of) == [kind |-> kind, art |-> art, by |-> by, of |-> of]

NoText == Text("none", 0, "none", "none")

\* ""
EmptyText == Text("empty", 0, "none", "none")

\* summarize_article: summary_prompt, built from the article's fields
SummaryPrompt(a) == Text("summary_prompt", a, "none", "none")

\* summarize_article: sentiment_prompt, built from the summary
SentimentPrompt(summary) == Text("sentiment_prompt", summary.art, "none", summary.by)

\* summarize_article: sentiment = "Unable to analyze sentiment"
Sentinel == Text("sentinel", 0, "none", "none")

\* a prompt the caller of ask_with_fallback passes
PlainPrompt(k) == Text("prompt", k, "none", "none")

\* the text a provider generates for a prompt
Output(prov, prompt) ==
    CASE prompt.kind = "summary_prompt" -> Text("summary", prompt.art, prov, "none")
      [] prompt.kind = "sentiment_prompt" -> Text("sentiment", prompt.art, prov, prompt.of)
      [] OTHER -> Text("answer", prompt.art, prov, "none")

\* len(text), in characters
TextLen(text) ==
    CASE text.kind = "summary_prompt" -> 9
      [] text.kind = "sentiment_prompt" -> 13
      [] text.kind = "prompt" -> 8
      [] text.kind = "summary" -> 6
      [] text.kind = "sentiment" -> 4
      [] text.kind = "answer" -> 5
      [] OTHER -> 0

\* ------------------------------------------------------------ token counts

\* a faulty variant of rough_token_estimate: the floor of 1 is missing
rough_token_estimate_nofloor(len) == len \div 4

\* rough_token_estimate: max(1, len(text) // 4)
rough_token_estimate(len) == Max(1, len \div 4)

\* len(tiktoken.encoding_for_model(model).encode(text)): about a token per
\* three characters, none for the empty string
tiktoken_len(len) == (len + 2) \div 3

\* count_tokens_openai: the tokenizer's count, or the heuristic when it raises
count_tokens_openai(len, tokenizer_ok) ==
    IF tokenizer_ok THEN tiktoken_len(len) ELSE rough_token_estimate(len)

\* --------------------------------------------------------------- Config

\* Config.OPENAI_MODEL and Config.COHERE_MODEL
ConfigModel(prov) == IF prov = "openai" THEN "gpt-4o-mini" ELSE "command-r-plus-08-2024"

\* openai_interval = 60.0 / Config.OPENAI_RPM, cohere_interval = 60.0 / Config.COHERE_RPM
Interval(prov) == IF prov = "openai" THEN 2 ELSE 3

\* Config.DAILY_BUDGET
DailyBudget == 5000

\* time.time() when the run starts: far beyond any interval after last_call = 0.0
Epoch == Interval("openai") + Interval("cohere")

\* ------------------------------------------------------ provider responses

\* What the provider's generation call does: it raises ("error"), or returns a
\* response with no output text ("no_content"), or with a text and the usage
\* reported ("usage") or not ("no_usage").
GenOutcomes == {"error", "no_content", "usage", "no_usage"}

\* the usage a provider reports: prompt and completion tokens
ReportedUsage == [input |-> 4, output |-> 2]

\* Responses with a text whose usage carries only one of the two counts, the
\* other being None: the prompt tokens ("usage_input_only") or the completion
\* tokens ("usage_output_only").
PartialUsage == {"usage_input_only", "usage_output_only"}

\* the responses that report the input count / the output count
ReportsInput == {"usage", "usage_input_only"}

ReportsOutput == {"usage", "usage_output_only"}

Other(prov) == IF prov = "openai" THEN "cohere" ELSE "openai"

\* ------------------------------------------------------- a thread's locals

NoRec == UsageRecord("none", "none", 0, 0)

\* what check_budget saw when a send called it: the total, the number of
\* records in the ledger, and whether it printed the warning
Checked(total, nreq, warned) == [total |-> total, nreq |-> nreq, warned |-> warned]

\* the send has not called check_budget
NoCheck == Checked(0, 0, FALSE)

\* pc: the thread's position; phase: the call site of the gateway send it is in
\* ("primary", "fallback", "sentiment" in summarize_article; "fb_primary",
\* "fb_alt" in ask_with_fallback); gen: what the provider's generation call
\* did in this send; log: the sends of the call it is in
Idle ==
    [pc |-> "idle", phase |-> "none", art |-> 0, prov |-> "none", prompt |-> NoText,
     wake |-> 0, text |-> NoText, rec |-> NoRec, tmp |-> 0, chk |-> NoCheck, gen |-> "none",
     summary |-> NoText, summary_provider |-> "none", log |-> <<>>]

\* Thread 1 is the caller's thread (process_articles, ask_with_fallback); in a
\* concurrent batch run thread a is the one asyncio.to_thread starts for article a.
Threads == 1..Max(MaxArticles, MaxAsyncArticles)

\* entering ask_openai / ask_cohere from call site `phase`
StartSend(r, phase, prov, prompt) ==
    [r EXCEPT !.pc = "wait", !.phase = phase, !.prov = prov, !.prompt = prompt,
              !.wake = 0, !.text = NoText, !.rec = NoRec, !.tmp = 0, !.chk = NoCheck,
              !.gen = "none"]

Logged(r, out, text) ==
    Append(r.log, [phase |-> r.phase, prov |-> r.prov, prompt |-> r.prompt,
                   gen |-> r.gen, out |-> out, text |-> text, chk |-> r.chk])

\* a faulty variant of summarize_article: the sentiment step has no try/except
summarize_article_fatal(r, out, text) ==
    LET r1 == [r EXCEPT !.log = Logged(r, out, text)] IN
    CASE r.phase = "primary" /\ out = "returned" ->
            StartSend([r1 EXCEPT !.summary = text, !.summary_provider = "openai"],
                      "sentiment", "cohere", SentimentPrompt(text))
      [] r.phase = "primary" /\ out # "returned" ->
            StartSend(r1, "fallback", "cohere", r.prompt)
      [] r.phase = "fallback" /\ out = "returned" ->
            StartSend([r1 EXCEPT !.summary = text, !.summary_provider = "cohere"],
                      "sentiment", "cohere", SentimentPrompt(text))
      [] r.phase = "sentiment" /\ out = "returned" ->
            [r1 EXCEPT !.pc = "returned", !.text = text]
      [] OTHER -> [r1 EXCEPT !.pc = "raised", !.text = NoText]

\* a faulty variant of summarize_article: summary_provider is set to "openai"
\* whichever provider served the summary
summarize_article_mislabel(r, out, text) ==
    LET r1 == [r EXCEPT !.log = Logged(r, out, text)] IN
    CASE r.phase = "primary" /\ out = "returned" ->
            StartSend([r1 EXCEPT !.summary = text, !.summary_provider = "openai"],
                      "sentiment", "cohere", SentimentPrompt(text))
      [] r.phase = "primary" /\ out # "returned" ->
            StartSend(r1, "fallback", "cohere", r.prompt)
      [] r.phase = "fallback" /\ out = "returned" ->
            StartSend([r1 EXCEPT !.summary = text, !.summary_provider = "openai"],
                      "sentiment", "cohere", SentimentPrompt(text))
      [] r.phase = "fallback" /\ out # "returned" ->
            [r1 EXCEPT !.pc = "raised", !.text = NoText]
      [] r.phase = "sentiment" ->
            [r1 EXCEPT !.pc = "returned",
                       !.text = IF out = "returned" THEN text ELSE Sentinel]

\* a faulty variant of summarize_article: a failed sentiment call falls back to
\* OpenAI
summarize_article_sentiment_fallback(r, out, text) ==
    LET r1 == [r EXCEPT !.log = Logged(r, out, text)] IN
    CASE r.phase = "primary" /\ out = "returned" ->
            StartSend([r1 EXCEPT !.summary = text, !.summary_provider = "openai"],
                      "sentiment", "cohere", SentimentPrompt(text))
      [] r.phase = "primary" /\ out # "returned" ->
            StartSend(r1, "fallback", "cohere", r.prompt)
      [] r.phase = "fallback" /\ out = "returned" ->
            StartSend([r1 EXCEPT !.summary = text, !.summary_provider = "cohere"],
                      "sentiment", "cohere", SentimentPrompt(text))
      [] r.phase = "fallback" /\ out # "returned" ->
            [r1 EXCEPT !.pc = "raised", !.text = NoText]
      [] r.phase = "sentiment" /\ out # "returned" /\ r.prov = "cohere" ->
            StartSend(r1, "sentiment", "openai", r.prompt)
      [] r.phase = "sentiment" ->
            [r1 EXCEPT !.pc = "returned",
                       !.text = IF out = "returned" THEN text ELSE Sentinel]

\* summarize_article, from the return or the exception of one of its three
\* sends: `out` is "returned" or the kind of the exception raised
summarize_article(r, out, text) ==
    LET r1 == [r EXCEPT !.log = Logged(r, out, text)] IN
    CASE r.phase = "primary" /\ out = "returned" ->
            StartSend([r1 EXCEPT !.summary = text, !.summary_provider = "openai"],
                      "sentiment", "cohere", SentimentPrompt(text))
      [] r.phase = "primary" /\ out # "returned" ->
            StartSend(r1, "fallback", "cohere", r.prompt)
      [] r.phase = "fallback" /\ out = "returned" ->
            StartSend([r1 EXCEPT !.summary = text, !.summary_provider = "cohere"],
                      "sentiment", "cohere", SentimentPrompt(text))
      [] r.phase = "fallback" /\ out # "returned" ->
            [r1 EXCEPT !.pc = "raised", !.text = NoText]
      [] r.phase = "sentiment" ->
            [r1 EXCEPT !.pc = "returned",
                       !.text = IF out = "returned" THEN text ELSE Sentinel]

\* the dictionary summarize_article returns
ResultOf(r) ==
    [art |-> r.art, summary_provider |-> r.summary_provider, summary |-> r.summary,
     sentiment |-> r.text]

\* a faulty variant of ask_with_fallback: the fallback's result is tagged with the
\* preferred provider's name
ask_with_fallback_mistag(r, out, text) ==
    LET r1 == [r EXCEPT !.log = Logged(r, out, text)] IN
    CASE out = "returned" ->
            [r1 EXCEPT !.pc = "returned", !.text = text,
                       !.summary_provider = IF r.phase = "fb_alt" THEN Other(r.prov) ELSE r.prov]
      [] r.phase = "fb_primary" /\ out # "returned" ->
            StartSend(r1, "fb_alt", Other(r.prov), r.prompt)
      [] r.phase = "fb_alt" /\ out # "returned" ->
            [r1 EXCEPT !.pc = "raised", !.text = NoText]

\* a faulty variant of ask_with_fallback: a failed fallback is tried once more
ask_with_fallback_retry(r, out, text) ==
    LET r1 == [r EXCEPT !.log = Logged(r, out, text)] IN
    CASE out = "returned" ->
            [r1 EXCEPT !.pc = "returned", !.text = text, !.summary_provider = r.prov]
      [] r.phase = "fb_primary" /\ out # "returned" ->
            StartSend(r1, "fb_alt", Other(r.prov), r.prompt)
      [] r.phase = "fb_alt" /\ out # "returned" /\ Len(r.log) < 2 ->
            StartSend(r1, "fb_alt", r.prov, r.prompt)
      [] OTHER -> [r1 EXCEPT !.pc = "raised", !.text = NoText]

\* ask_with_fallback, from the return or the exception of one of its two sends:
\* return {"provider": <the one just called>, "response": response}
ask_with_fallback(r, out, text) ==
    LET r1 == [r EXCEPT !.log = Logged(r, out, text)] IN
    CASE out = "returned" ->
            [r1 EXCEPT !.pc = "returned", !.text = text, !.summary_provider = r.prov]
      [] r.phase = "fb_primary" /\ out # "returned" ->
            StartSend(r1, "fb_alt", Other(r.prov), r.prompt)
      [] r.phase = "fb_alt" /\ out # "returned" ->
            [r1 EXCEPT !.pc = "raised", !.text = NoText]

\* where the send of thread record r hands its return or exception
Continue(r, out, text) ==
    IF r.phase \in {"fb_primary", "fb_alt"}
    THEN ask_with_fallback(r, out, text)
    ELSE summarize_article(r, out, text)

\* ------------------------------------------- ask_openai / ask_cohere, by step

\* what the steps of a gateway send leave alone
sendFrame ==
    <<mode, calls, ret, n_articles, cursor, results, batch, max_concurrent, sem, tasks,
      item_log>>

\* a faulty variant of SleepFor: the sleep is one tick short
SleepForShort(elapsed, interval) == IF elapsed < interval THEN interval - elapsed - 1 ELSE 0

\* _wait_openai / _wait_cohere: how long to sleep
SleepFor(elapsed, interval) == IF elapsed < interval THEN interval - elapsed ELSE 0

\* _wait_*: elapsed = time.time() - last_call; if elapsed < interval: ...
wait_check(t) ==
    /\ th[t].pc = "wait"
    /\ LET d == SleepFor(now - last_call[th[t].prov], Interval(th[t].prov)) IN
        th' = [th EXCEPT ![t].pc = IF d > 0 THEN "sleep" ELSE "stamp",
                         ![t].wake = IF d > 0 THEN now + d ELSE 0]
    /\ UNCHANGED <<sendFrame, total_cost, requests, now, last_call, grants, budget_hit>>

\* _wait_*: time.sleep(interval - elapsed) returns, no earlier than asked
wait_sleep(t) ==
    /\ th[t].pc = "sleep"
    /\ now' = Max(now, th[t].wake)
    /\ th' = [th EXCEPT ![t].pc = "stamp", ![t].wake = 0]
    /\ UNCHANGED <<sendFrame, total_cost, requests, last_call, grants, budget_hit>>

\* _wait_*: last_call = time.time()
wait_stamp(t) ==
    /\ th[t].pc = "stamp"
    /\ last_call' = [last_call EXCEPT ![th[t].prov] = now]
    /\ grants' = [grants EXCEPT ![th[t].prov] = Append(@, now)]
    /\ th' = [th EXCEPT ![t].pc = "gen"]
    /\ UNCHANGED <<sendFrame, total_cost, requests, now, budget_hit>>

\* ask_openai: output_text and the token counts, from the response
openai_usage(prompt, g, tokenizer_ok) ==
    LET output_text == IF g = "no_content" THEN EmptyText ELSE Output("openai", prompt) IN
    \* if usage and getattr(usage, "prompt_tokens", None) is not None:
    \*     input_tokens = usage.prompt_tokens
    \*     output_tokens = usage.completion_tokens or 0
    [text |-> output_text,
     input |-> IF g \in ReportsInput THEN ReportedUsage.input
               ELSE count_tokens_openai(TextLen(prompt), tokenizer_ok),
     output |-> IF g \in ReportsInput
                THEN (IF g \in ReportsOutput THEN ReportedUsage.output ELSE 0)
                ELSE count_tokens_openai(TextLen(output_text), tokenizer_ok)]

\* ask_cohere: output_text and the token counts, from the response
cohere_usage(prompt, g) ==
    LET output_text == Output("cohere", prompt) IN
    \* input_tokens, output_tokens = extract_cohere_token_usage(res), and each
    \* one that is None is estimated
    [text |-> output_text,
     input |-> IF g \in ReportsInput THEN ReportedUsage.input
               ELSE rough_token_estimate(TextLen(prompt)),
     output |-> IF g \in ReportsOutput THEN ReportedUsage.output
                ELSE rough_token_estimate(TextLen(output_text))]

\* the provider's generation call and the reading of its response, up to the
\* call of track_request
generate(t, g, tokenizer_ok) ==
    /\ th[t].pc = "gen"
    /\ LET r == [th[t] EXCEPT !.gen = g]
           u == IF r.prov = "openai" THEN openai_usage(r.prompt, g, tokenizer_ok)
                ELSE cohere_usage(r.prompt, g)
       IN
        th' = [th EXCEPT ![t] =
                 IF g = "error" THEN Continue(r, "provider", NoText)
                 ELSE IF g = "no_content" /\ r.prov = "cohere"
                 THEN Continue(r, "extract", NoText)
                 ELSE [r EXCEPT !.pc = "track", !.text = u.text,
                                !.rec = UsageRecord(r.prov, ConfigModel(r.prov),
                                                    u.input, u.output)]]
    /\ UNCHANGED <<sendFrame, total_cost, requests, now, last_call, grants, budget_hit>>

\* track_request, self.total_cost += cost: the read of total_cost
track_read(t) ==
    /\ th[t].pc = "track"
    /\ th' = [th EXCEPT ![t].pc = "add", ![t].tmp = total_cost]
    /\ UNCHANGED <<sendFrame, total_cost, requests, now, last_call, grants, budget_hit>>

\* track_request, self.total_cost += cost: the write of total_cost
track_add(t) ==
    /\ th[t].pc = "add"
    /\ total_cost' = th[t].tmp + th[t].rec.cost
    /\ th' = [th EXCEPT ![t].pc = "append", ![t].tmp = 0]
    /\ UNCHANGED <<sendFrame, requests, now, last_call, grants, budget_hit>>

\* a faulty variant of track_append: a record equal to one already in the
\* ledger is not appended
track_append_dedup(t) ==
    /\ th[t].pc = "append"
    /\ requests' = IF \E i \in 1..Len(requests) : requests[i] = th[t].rec
                   THEN requests ELSE Append(requests, th[t].rec)
    /\ th' = [th EXCEPT ![t].pc = "check"]
    /\ UNCHANGED <<sendFrame, total_cost, now, last_call, grants, budget_hit>>

\* track_request: self.requests.append(...)
track_append(t) ==
    /\ th[t].pc = "append"
    /\ requests' = Append(requests, th[t].rec)
    /\ th' = [th EXCEPT ![t].pc = "check"]
    /\ UNCHANGED <<sendFrame, total_cost, now, last_call, grants, budget_hit>>

\* a faulty variant of budget_check: the budget is checked against the total
\* before this send's cost was added
budget_check_stale(t) ==
    /\ th[t].pc = "check"
    /\ LET before == total_cost - th[t].rec.cost
           raised == BudgetRaises(before, DailyBudget)
           r == [th[t] EXCEPT !.chk = Checked(before, Len(requests),
                                              ~raised /\ BudgetWarns(before, DailyBudget))]
       IN
        /\ th' = [th EXCEPT ![t] =
                    IF raised THEN Continue(r, "budget", NoText)
                    ELSE Continue(r, "returned", r.text)]
        /\ budget_hit' = (budget_hit \/ raised)
    /\ UNCHANGED <<sendFrame, total_cost, requests, now, last_call, grants>>

\* check_budget(Config.DAILY_BUDGET), then return output_text
budget_check(t) ==
    /\ th[t].pc = "check"
    /\ LET raised == BudgetRaises(total_cost, DailyBudget)
           r == [th[t] EXCEPT !.chk = Checked(total_cost, Len(requests),
                                              ~raised /\ BudgetWarns(total_cost, DailyBudget))]
       IN
        /\ th' = [th EXCEPT ![t] =
                    IF raised THEN Continue(r, "budget", NoText)
                    ELSE Continue(r, "returned", r.text)]
        /\ budget_hit' = (budget_hit \/ raised)
    /\ UNCHANGED <<sendFrame, total_cost, requests, now, last_call, grants>>

\* time passes
Tick ==
    /\ batch = "running"
    /\ now < Epoch + MaxTicks
    /\ now' = now + 1
    /\ UNCHANGED <<sendFrame, total_cost, requests, last_call, grants, th, budget_hit>>

\* the responses the batch runs draw from: a response without usage, or a
\* failing tokenizer, changes only the token counts of the usage record
BatchOutcomes == GenOutcomes \ {"no_usage"}

\* a step of a gateway send of some thread, the provider answering with one of G
Send(G, T) ==
    \E t \in Threads :
        \/ wait_check(t)
        \/ wait_sleep(t)
        \/ wait_stamp(t)
        \/ \E g \in G, tokenizer_ok \in T : generate(t, g, tokenizer_ok)
        \/ track_read(t)
        \/ track_add(t)
        \/ track_append(t)
        \/ budget_check(t)

\* ------------------------------------------------------------ initial states

NoResult == [art |-> 0, summary_provider |-> "none", summary |-> NoText, sentiment |-> NoText]

\* the state of one process_with_semaphore task: st is "none" (no such article),
\* "pending" (waiting for the semaphore), "running" (in its thread) or "done"
\* (settled: with a result, or with an exception when exc)
Task(st, exc, value) == [st |-> st, exc |-> exc, value |-> value]

\* a fresh CostTracker
InitLedgerState ==
    /\ total_cost = 0
    /\ requests = <<>>
    /\ ret = [op |-> "none"]
    /\ calls = <<>>

\* a faulty variant of InitProviders: last_call starts at the time of
\* construction instead of 0.0
InitProvidersStamped ==
    /\ InitLedgerState
    /\ now = Epoch
    /\ last_call = [p \in Providers |-> Epoch]
    /\ grants = [p \in Providers |-> <<>>]
    /\ th = [t \in Threads |-> Idle]
    /\ budget_hit = FALSE
    /\ item_log = [a \in Threads |-> <<>>]
    /\ results = <<>>

\* a fresh LLMProviders
InitProviders ==
    /\ InitLedgerState
    /\ now = Epoch
    /\ last_call = [p \in Providers |-> 0]
    /\ grants = [p \in Providers |-> <<>>]
    /\ th = [t \in Threads |-> Idle]
    /\ budget_hit = FALSE
    /\ item_log = [a \in Threads |-> <<>>]
    /\ results = <<>>

InitLedger ==
    /\ mode = "ledger"
    /\ InitProviders
    /\ n_articles = 0 /\ cursor = 0 /\ batch = "none"
    /\ max_concurrent = 0 /\ sem = 0
    /\ tasks = [a \in Threads |-> Task("none", FALSE, NoResult)]

InitFallback ==
    /\ mode = "fallback"
    /\ InitProviders
    /\ n_articles = 0 /\ cursor = 0 /\ batch = "running"
    /\ max_concurrent = 0 /\ sem = 0
    /\ tasks = [a \in Threads |-> Task("none", FALSE, NoResult)]

InitSeq ==
    /\ mode = "seq"
    /\ InitProviders
    /\ n_articles \in 0..MaxArticles
    /\ cursor = 1 /\ batch = "running"
    /\ max_concurrent = 0 /\ sem = 0
    /\ tasks = [a \in Threads |-> Task("none", FALSE, NoResult)]

InitAsync ==
    /\ mode = "async"
    /\ InitProviders
    /\ n_articles \in 0..MaxAsyncArticles
    /\ cursor = 0 /\ batch = "running"
    /\ max_concurrent \in 1..MaxConcurrent
    /\ sem = max_concurrent
    /\ tasks = [a \in Threads |->
                  Task(IF a <= n_articles THEN "pending" ELSE "none", FALSE, NoResult)]

Init == InitSeq \/ InitAsync

\* ----------------------------------------------- the ledger driver's inputs

\* (provider, model) pairs the driver passes to track_request; the last one is
\* a model PRICING does not know
LedgerModels ==
    {<<"openai", "gpt-4o-mini">>, <<"cohere", "command-r-plus-08-2024">>,
     <<"openai", "o-unknown">>}

LedgerTokens == {0, 3}

LedgerBudgets == {0, 900, 1000, 1001}

\* what the CostTracker's own operations leave alone
ledgerFrame ==
    <<mode, now, last_call, grants, th, n_articles, cursor, results, batch,
      max_concurrent, sem, tasks, item_log, budget_hit>>

\* ------------------------------------------ CostTracker, called sequentially

\* a faulty variant of track_request: the total is overwritten, not added to
track_request_overwrite(provider, model, input_tokens, output_tokens) ==
    /\ mode = "ledger"
    /\ Len(calls) < MaxLedgerCalls
    /\ LET rec == UsageRecord(provider, model, input_tokens, output_tokens) IN
        /\ total_cost' = rec.cost
        /\ requests' = Append(requests, rec)
        /\ ret' = [op |-> "track_request", cost |-> rec.cost]
        /\ calls' = Append(calls, [input_tokens |-> input_tokens,
                                    output_tokens |-> output_tokens, cost |-> rec.cost])
    /\ UNCHANGED ledgerFrame

track_request(provider, model, input_tokens, output_tokens) ==
    /\ mode = "ledger"
    /\ Len(calls) < MaxLedgerCalls
    /\ LET rec == UsageRecord(provider, model, input_tokens, output_tokens) IN
        /\ total_cost' = total_cost + rec.cost
        /\ requests' = Append(requests, rec)
        /\ ret' = [op |-> "track_request", cost |-> rec.cost]
        /\ calls' = Append(calls, [input_tokens |-> input_tokens,
                                    output_tokens |-> output_tokens, cost |-> rec.cost])
    /\ UNCHANGED ledgerFrame

check_budget(daily_budget) ==
    /\ mode = "ledger"
    /\ ret' = CheckBudgetOutcome(total_cost, daily_budget)
    /\ UNCHANGED <<ledgerFrame, total_cost, requests, calls>>

get_summary ==
    /\ mode = "ledger"
    /\ ret' = SummaryOf(total_cost, requests)
    /\ UNCHANGED <<ledgerFrame, total_cost, requests, calls>>

NextLedger ==
    \/ \E pm \in LedgerModels, i \in LedgerTokens, o \in LedgerTokens :
          track_request(pm[1], pm[2], i, o)
    \/ \E b \in LedgerBudgets : check_budget(b)
    \/ get_summary

SpecLedger == InitLedger /\ [][NextLedger]_vars

\* ------------------------------------------- the token counters, called alone

InitTokens ==
    /\ mode = "tokens"
    /\ InitProviders
    /\ n_articles = 0 /\ cursor = 0 /\ batch = "none"
    /\ max_concurrent = 0 /\ sem = 0
    /\ tasks = [a \in Threads |-> Task("none", FALSE, NoResult)]

\* the length and the count of the call before this one, and whether it went
\* through the heuristic, if there was one
Previous ==
    IF ret.op = "tokens"
    THEN [called |-> TRUE, len |-> ret.len, value |-> ret.value,
          heuristic |-> (ret.fn = "rough_token_estimate" \/ ~ret.tokenizer_ok)]
    ELSE [called |-> FALSE, len |-> 0, value |-> 0, heuristic |-> FALSE]

\* a call rough_token_estimate(text) on a text of len characters
call_rough_token_estimate(len) ==
    /\ mode = "tokens"
    /\ ret' = [op |-> "tokens", fn |-> "rough_token_estimate", len |-> len,
               tokenizer_ok |-> FALSE, value |-> rough_token_estimate(len),
               prev |-> Previous]
    /\ UNCHANGED <<ledgerFrame, total_cost, requests, calls>>

\* a call count_tokens_openai(text) on a text of len characters, tiktoken
\* working or raising
call_count_tokens_openai(len, tokenizer_ok) ==
    /\ mode = "tokens"
    /\ ret' = [op |-> "tokens", fn |-> "count_tokens_openai", len |-> len,
               tokenizer_ok |-> tokenizer_ok,
               value |-> count_tokens_openai(len, tokenizer_ok),
               prev |-> Previous]
    /\ UNCHANGED <<ledgerFrame, total_cost, requests, calls>>

NextTokens ==
    \/ \E len \in 0..MaxTextLen : call_rough_token_estimate(len)
    \/ \E len \in 0..MaxTextLen, tokenizer_ok \in BOOLEAN :
          call_count_tokens_openai(len, tokenizer_ok)

SpecTokens == InitTokens /\ [][NextTokens]_vars

\* ------------------------------------------------ ask_with_fallback's caller

\* what the drivers' own steps leave alone
driverFrame == <<mode, total_cost, requests, calls, now, last_call, grants, budget_hit>>

\* a call ask_with_fallback(prompt, primary): into the try block
fallback_call(k, primary) ==
    /\ mode = "fallback"
    /\ th[1].pc = "idle"
    /\ cursor < MaxFallbackCalls
    /\ cursor' = cursor + 1
    /\ th' = [th EXCEPT ![1] =
                StartSend([Idle EXCEPT !.art = k], "fb_primary", primary, PlainPrompt(k))]
    /\ ret' = [op |-> "none"]
    /\ UNCHANGED <<driverFrame, n_articles, results, batch, max_concurrent, sem, tasks,
                   item_log>>

\* ask_with_fallback returns {"provider": ..., "response": ...} or raises
fallback_end ==
    /\ mode = "fallback"
    /\ th[1].pc \in {"returned", "raised"}
    /\ ret' = [op |-> "ask_with_fallback", raised |-> (th[1].pc = "raised"),
               provider |-> th[1].summary_provider, response |-> th[1].text,
               log |-> th[1].log]
    /\ th' = [th EXCEPT ![1] = Idle]
    /\ UNCHANGED <<driverFrame, n_articles, cursor, results, batch, max_concurrent, sem,
                   tasks, item_log>>

NextFallback ==
    \/ Send(GenOutcomes, BOOLEAN)
    \/ Tick
    \/ \E k \in 1..2, primary \in Providers : fallback_call(k, primary)
    \/ fallback_end

SpecFallback == InitFallback /\ [][NextFallback]_vars

\* ask_with_fallback calls against providers whose responses may also carry a
\* partial usage
NextUsage ==
    \/ Send(GenOutcomes \cup PartialUsage, BOOLEAN)
    \/ Tick
    \/ \E k \in 1..2, primary \in Providers : fallback_call(k, primary)
    \/ fallback_end

SpecUsage == InitFallback /\ [][NextUsage]_vars

\* ---------------------------------------------------------- process_articles

\* for article in articles: try: ... self.summarize_article(article)
seq_next ==
    /\ mode = "seq" /\ batch = "running"
    /\ th[1].pc = "idle"
    /\ cursor <= n_articles
    /\ th' = [th EXCEPT ![1] =
                StartSend([Idle EXCEPT !.art = cursor], "primary", "openai",
                          SummaryPrompt(cursor))]
    /\ UNCHANGED <<driverFrame, ret, n_articles, cursor, results, batch, max_concurrent,
                   sem, tasks, item_log>>

\* results.append(<the result of summarize_article>)
seq_append ==
    /\ mode = "seq"
    /\ th[1].pc = "returned"
    /\ results' = Append(results, ResultOf(th[1]))
    /\ item_log' = [item_log EXCEPT ![th[1].art] = th[1].log]
    /\ cursor' = cursor + 1
    /\ th' = [th EXCEPT ![1] = Idle]
    /\ UNCHANGED <<driverFrame, ret, n_articles, batch, max_concurrent, sem, tasks>>

\* a faulty variant of seq_except: the exception of an article ends the loop
seq_except_break ==
    /\ mode = "seq"
    /\ th[1].pc = "raised"
    /\ item_log' = [item_log EXCEPT ![th[1].art] = th[1].log]
    /\ cursor' = n_articles + 1
    /\ th' = [th EXCEPT ![1] = Idle]
    /\ UNCHANGED <<driverFrame, ret, n_articles, results, batch, max_concurrent, sem,
                   tasks>>

\* except Exception as e: print(...), and on to the next article
seq_except ==
    /\ mode = "seq"
    /\ th[1].pc = "raised"
    /\ item_log' = [item_log EXCEPT ![th[1].art] = th[1].log]
    /\ cursor' = cursor + 1
    /\ th' = [th EXCEPT ![1] = Idle]
    /\ UNCHANGED <<driverFrame, ret, n_articles, results, batch, max_concurrent, sem,
                   tasks>>

\* return results
seq_return ==
    /\ mode = "seq" /\ batch = "running"
    /\ th[1].pc = "idle"
    /\ cursor > n_articles
    /\ batch' = "returned"
    /\ UNCHANGED <<driverFrame, ret, th, n_articles, cursor, results, max_concurrent,
                   sem, tasks, item_log>>

\* ---------------------------------------------------- process_articles_async

\* process_with_semaphore: `async with semaphore` admits the task, and
\* summarize_article_async starts summarize_article in a thread
task_acquire(a) ==
    /\ mode = "async"
    /\ tasks[a].st = "pending"
    /\ sem > 0
    /\ sem' = sem - 1
    /\ tasks' = [tasks EXCEPT ![a].st = "running"]
    /\ th' = [th EXCEPT ![a] =
                StartSend([Idle EXCEPT !.art = a], "primary", "openai", SummaryPrompt(a))]
    /\ UNCHANGED <<driverFrame, ret, n_articles, cursor, results, batch, max_concurrent,
                   item_log>>

\* a faulty variant of task_release: a task that ended in error keeps its permit
task_release_leak(a) ==
    /\ mode = "async"
    /\ tasks[a].st = "running"
    /\ th[a].pc \in {"returned", "raised"}
    /\ sem' = IF th[a].pc = "returned" THEN sem + 1 ELSE sem
    /\ tasks' = [tasks EXCEPT ![a] =
                   IF th[a].pc = "returned" THEN Task("done", FALSE, ResultOf(th[a]))
                   ELSE Task("done", TRUE, NoResult)]
    /\ item_log' = [item_log EXCEPT ![a] = th[a].log]
    /\ th' = [th EXCEPT ![a] = Idle]
    /\ UNCHANGED <<driverFrame, ret, n_articles, cursor, results, batch, max_concurrent>>

\* the thread has ended: the task leaves `async with` (the semaphore is
\* released) and settles with the result or the exception
task_release(a) ==
    /\ mode = "async"
    /\ tasks[a].st = "running"
    /\ th[a].pc \in {"returned", "raised"}
    /\ sem' = sem + 1
    /\ tasks' = [tasks EXCEPT ![a] =
                   IF th[a].pc = "returned" THEN Task("done", FALSE, ResultOf(th[a]))
                   ELSE Task("done", TRUE, NoResult)]
    /\ item_log' = [item_log EXCEPT ![a] = th[a].log]
    /\ th' = [th EXCEPT ![a] = Idle]
    /\ UNCHANGED <<driverFrame, ret, n_articles, cursor, results, batch, max_concurrent>>

RECURSIVE ValidResultsUnfiltered(_, _)
\* a faulty variant of ValidResults: the exceptions are not filtered out
ValidResultsUnfiltered(tk, k) ==
    IF k = 0 THEN <<>> ELSE Append(ValidResultsUnfiltered(tk, k - 1), tk[k].value)

RECURSIVE ValidResultsReversed(_, _)
\* a faulty variant of ValidResults: each result is put in front of the list
ValidResultsReversed(tk, k) ==
    IF k = 0 THEN <<>>
    ELSE IF tk[k].exc THEN ValidResultsReversed(tk, k - 1)
    ELSE <<tk[k].value>> \o ValidResultsReversed(tk, k - 1)

RECURSIVE ValidResults(_, _)
\* [r for r in results if not isinstance(r, Exception)], over the first k tasks
ValidResults(tk, k) ==
    IF k = 0 THEN <<>>
    ELSE IF tk[k].exc THEN ValidResults(tk, k - 1)
    ELSE Append(ValidResults(tk, k - 1), tk[k].value)

\* a faulty variant of gather_return: gather without return_exceptions raises
\* the first exception of a task instead of returning
gather_return_strict ==
    /\ mode = "async" /\ batch = "running"
    /\ \A a \in 1..n_articles : tasks[a].st = "done"
    /\ IF \E a \in 1..n_articles : tasks[a].exc
       THEN batch' = "raised" /\ results' = results
       ELSE batch' = "returned" /\ results' = ValidResults(tasks, n_articles)
    /\ UNCHANGED <<driverFrame, ret, th, n_articles, cursor, max_concurrent, sem, tasks,
                   item_log>>

\* asyncio.gather(*tasks, return_exceptions=True) returns once every task has
\* settled; the exceptions are filtered out
gather_return ==
    /\ mode = "async" /\ batch = "running"
    /\ \A a \in 1..n_articles : tasks[a].st = "done"
    /\ results' = ValidResults(tasks, n_articles)
    /\ batch' = "returned"
    /\ UNCHANGED <<driverFrame, ret, th, n_articles, cursor, max_concurrent, sem, tasks,
                   item_log>>

\* a sequential batch run
NextSeq ==
    \/ Send(GenOutcomes, BOOLEAN)
    \/ Tick
    \/ seq_next
    \/ seq_append
    \/ seq_except
    \/ seq_return

SpecSeq == InitSeq /\ [][NextSeq]_vars

\* a concurrent batch run
NextAsync ==
    \/ Send(BatchOutcomes, {TRUE})
    \/ Tick
    \/ \E a \in Threads : task_acquire(a)
    \/ \E a \in Threads : task_release(a)
    \/ gather_return

SpecAsync == InitAsync /\ [][NextAsync]_vars

\* a batch run in either mode
Next ==
    \/ Send(BatchOutcomes, {TRUE})
    \/ Tick
    \/ seq_next
    \/ seq_append
    \/ seq_except
    \/ seq_return
    \/ \E a \in Threads : task_acquire(a)
    \/ \E a \in Threads : task_release(a)
    \/ gather_return

Spec == Init /\ [][Next]_vars

\* a batch run in either mode, in which the threads and the event loop keep
\* being scheduled, every sleep returns and every provider call returns or
\* raises: a step is taken whenever one is possible
SpecLive == Spec /\ WF_vars(Next)

\* one caller's thread: ask_with_fallback calls, or a sequential batch run
NextCalls ==
    \/ Send(GenOutcomes, BOOLEAN)
    \/ Tick
    \/ \E k \in 1..2, primary \in Providers : fallback_call(k, primary)
    \/ fallback_end
    \/ seq_next
    \/ seq_append
    \/ seq_except
    \/ seq_return

InitCalls == InitFallback \/ InitSeq

SpecCalls == InitCalls /\ [][NextCalls]_vars

\* ================================================================= claims

\* C1: after any sequence of track_request calls on a fresh tracker,
\* total_cost equals the sum of the cost fields of the entries of requests.
C1_TotalIsSumOfCosts == total_cost = SumOver(requests, "cost")

C1_Witness ==
    /\ mode = "ledger"
    /\ Len(requests) >= 2
    /\ requests[1].cost > 0 /\ requests[2].cost > 0
    /\ requests[1].model # requests[2].model

\* C2: check_budget(daily_budget) raises exactly when total_cost >= daily_budget;
\* when it does not raise it warns exactly when total_cost is at least 90% of
\* daily_budget, and a call that warns returns normally.
C2_BudgetCheck ==
    ret.op = "check_budget" =>
        /\ ret.raised <=> (total_cost >= ret.budget)
        /\ ~ret.raised => (ret.warned <=> (10 * total_cost >= 9 * ret.budget))
        /\ ret.warned => ~ret.raised

\* a check with the total at exactly 90% of the budget warns and returns
C2_Witness ==
    /\ ret.op = "check_budget"
    /\ ret.budget > 0
    /\ 10 * total_cost = 9 * ret.budget
    /\ ret.warned /\ ~ret.raised

\* ------------------------------------------------- what the histories show

\* every two grants of provider p are at least its interval apart
Spaced(p) ==
    \A i, j \in 1..Len(grants[p]) : i < j => grants[p][j] - grants[p][i] >= Interval(p)

\* the primary step of the pipeline with send log lg failed on both providers
PrimaryFailed(lg) ==
    /\ Len(lg) >= 2
    /\ lg[1].phase = "primary" /\ lg[1].out # "returned"
    /\ lg[2].phase = "fallback" /\ lg[2].out # "returned"

\* the entry of the send that served the primary step of log lg, or 0
PrimaryServed(lg) ==
    IF Len(lg) >= 1 /\ lg[1].phase = "primary" /\ lg[1].out = "returned" THEN 1
    ELSE IF Len(lg) >= 2 /\ lg[2].phase = "fallback" /\ lg[2].out = "returned" THEN 2
    ELSE 0

\* the pcs of a thread inside a gateway send
SendPcs == {"wait", "sleep", "stamp", "gen", "track", "add", "append", "check"}

\* the number of entries of log lg that are sends to provider p
SendsIn(lg, p) == Cardinality({i \in 1..Len(lg) : lg[i].prov = p})

\* the sends to provider p begun so far by thread 1 in a sequential batch run
SendsBegun(p) ==
    LET past == {a \in Threads : item_log[a] # <<>>}
        RECURSIVE Sum(_)
        Sum(S) == IF S = {} THEN 0
                  ELSE LET a == CHOOSE x \in S : TRUE IN SendsIn(item_log[a], p) + Sum(S \ {a})
    IN Sum(past) + SendsIn(th[1].log, p)
       + (IF th[1].pc \in SendPcs /\ th[1].prov = p THEN 1 ELSE 0)

\* ------------------------------------------------------------------ C3..C10

\* C3: when several concurrent tasks call the same provider's rate-limiter wait,
\* any two grants on that provider are at least its minimum interval apart.
C3_ConcurrentGrantsSpaced == \A p \in Providers : Spaced(p)

\* C4: when concurrent tasks call track_request on the shared tracker no update
\* is lost: once all have returned, total_cost is the sum of the recorded costs.
C4_NoLostUpdate == batch = "returned" => total_cost = SumOver(requests, "cost")

\* C5: a BudgetExceeded failure raised by check_budget inside a gateway send
\* reaches the top-level caller of the batch run: the run does not return
\* normally after one.
C5_BudgetPropagates == batch = "returned" => ~budget_hit

\* C6: ask_with_fallback: when the preferred provider's send fails and the
\* alternate's succeeds, the result is the alternate's text tagged with the
\* alternate's name, and the alternate got the same prompt; when both fail the
\* call raises and returns no result.
C6_Fallback ==
    (ret.op = "ask_with_fallback" /\ Len(ret.log) = 2) =>
        LET first == ret.log[1]
            second == ret.log[2]
        IN /\ first.out # "returned"
           /\ second.prov = Other(first.prov)
           /\ second.prompt = first.prompt
           /\ second.out = "returned" =>
                /\ ~ret.raised
                /\ ret.provider = second.prov
                /\ ret.response = second.text
           /\ second.out # "returned" => (ret.raised /\ ret.response = NoText)

C6_Witness ==
    /\ ret.op = "ask_with_fallback"
    /\ Len(ret.log) = 2
    /\ ret.log[1].prov = "cohere" /\ ret.log[1].out = "extract"
    /\ ret.log[2].out = "returned"
    /\ ret.provider = "openai" /\ ret.response = Output("openai", PlainPrompt(2))

\* C7: summarize_article raises and returns no result if the primary step fails
\* on both providers; if the primary step succeeds and the sentiment call fails
\* it returns a result with the sentinel as sentiment and the primary output as
\* summary, and raises nothing.
C7_ItemProcessor ==
    LET r == th[1]
        lg == r.log
    IN (r.pc \in {"returned", "raised"}) =>
         /\ PrimaryFailed(lg) => r.pc = "raised"
         /\ (PrimaryServed(lg) > 0 /\ lg[Len(lg)].out # "returned") =>
               /\ r.pc = "returned"
               /\ lg[Len(lg)].phase = "sentiment"
               /\ ResultOf(r).sentiment = Sentinel
               /\ ResultOf(r).summary = lg[PrimaryServed(lg)].text
               /\ ResultOf(r).art = r.art

C7_Witness ==
    /\ mode = "seq"
    /\ th[1].pc = "returned"
    /\ Len(th[1].log) = 3
    /\ th[1].log[3].out = "provider"
    /\ th[1].text = Sentinel
    /\ th[1].summary = Output("cohere", SummaryPrompt(th[1].art))

\* C8: for a batch of N items of which K fail at the primary step (both
\* providers fail), process_articles and process_articles_async return exactly
\* N-K results: one per item whose primary step succeeded, none for a failed one.
C8_BatchResults ==
    batch = "returned" =>
        LET failed == {a \in 1..n_articles : PrimaryFailed(item_log[a])} IN
        /\ Len(results) = n_articles - Cardinality(failed)
        /\ \A a \in 1..n_articles :
              Cardinality({i \in 1..Len(results) : results[i].art = a})
                = IF a \in failed THEN 0 ELSE 1

C8_Witness ==
    /\ mode = "async" /\ batch = "returned"
    /\ n_articles = 2
    /\ PrimaryFailed(item_log[1]) /\ ~PrimaryFailed(item_log[2])
    /\ Len(results) = 1 /\ results[1].art = 2

\* the threads that are executing summarize_article
Running == {a \in Threads : th[a].pc \in SendPcs}

\* C9: in process_articles_async at most max_concurrent item pipelines run at
\* any moment, and the permit a pipeline took is released when it ends, also
\* when it ends in error.
C9_BoundedConcurrency ==
    /\ Cardinality(Running) <= max_concurrent
    /\ sem >= 0
    /\ sem = max_concurrent - Cardinality({a \in Threads : tasks[a].st = "running"})
    /\ batch = "returned" => sem = max_concurrent

\* a second pipeline runs on the only permit, released by one that ended in error
C9_Witness ==
    /\ max_concurrent = 1
    /\ \E a, b \in Threads :
          /\ tasks[a].st = "done" /\ tasks[a].exc
          /\ tasks[b].st = "running" /\ b \in Running

\* C10: in sequential use, successive grants of one provider's rate limiter are
\* at least its minimum interval apart, and the limiter only delays: every
\* call of a gateway gets its grant.
C10_SequentialSpacing ==
    \A p \in Providers :
        /\ Spaced(p)
        /\ Len(grants[p]) =
             SendsBegun(p)
               - (IF th[1].pc \in {"wait", "sleep", "stamp"} /\ th[1].prov = p THEN 1 ELSE 0)

\* two cohere calls in a row: the second one slept and was granted exactly one
\* interval after the first
C10_Witness ==
    /\ mode = "seq"
    /\ Len(grants["cohere"]) >= 2
    /\ grants["cohere"][2] - grants["cohere"][1] = Interval("cohere")

\* ----------------------------------------------------------------- C11..C20

\* the entries of the send logs, of the pipelines that ended and of those running
LogEntries ==
    UNION ({{item_log[a][i] : i \in 1..Len(item_log[a])} : a \in Threads}
           \cup {{th[t].log[i] : i \in 1..Len(th[t].log)} : t \in Threads})

\* C11: within a gateway send the usage is recorded before the budget is
\* checked: check_budget sees a ledger that holds the send's record and a total
\* that includes its cost; the send fails exactly when that total has reached
\* the budget, and warns only when it returns with 90% or more used.  With
\* two requests of 0.6 of the budget each, the first send returns at 0.6 with
\* no warning and the second fails at 1.2 with its record in the ledger.
C11_RecordThenCheck ==
    \A e \in LogEntries :
        IF e.out \in {"returned", "budget"}
        THEN /\ e.chk.nreq \in 1..Len(requests)
             /\ requests[e.chk.nreq].provider = e.prov
             /\ e.chk.total = SumOver(SubSeq(requests, 1, e.chk.nreq), "cost")
             /\ (e.out = "budget") <=> (e.chk.total >= DailyBudget)
             /\ e.chk.warned <=>
                   (e.out = "returned" /\ 10 * e.chk.total >= 9 * DailyBudget)
        ELSE e.chk = NoCheck

\* the scenario: two requests of 0.6 of the budget each
C11_Witness ==
    /\ mode = "seq"
    /\ Len(requests) = 2
    /\ \A i \in 1..2 : 10 * requests[i].cost = 6 * DailyBudget
    /\ \E i, j \in 1..Len(th[1].log) :
          LET first == th[1].log[i]
              second == th[1].log[j]
          IN /\ first.out = "returned" /\ ~first.chk.warned
             /\ first.chk.nreq = 1 /\ 10 * first.chk.total = 6 * DailyBudget
             /\ second.out = "budget"
             /\ second.chk.nreq = 2 /\ 10 * second.chk.total = 12 * DailyBudget
             /\ total_cost = second.chk.total

\* how a gateway send ends: it returns, or raises from the generation call
\* ("provider"), from reading the response's text ("extract") or from
\* check_budget ("budget")
SendOuts == {"returned", "provider", "extract", "budget"}

RECURSIVE CountLogs(_, _, _)
\* the number of sends to provider p, among the logs of threads 1..k, that
\* ended with one of outs
CountLogs(k, p, outs) ==
    IF k = 0 THEN 0
    ELSE CountLogs(k - 1, p, outs)
         + Cardinality({i \in 1..Len(item_log[k]) :
                          item_log[k][i].prov = p /\ item_log[k][i].out \in outs})
         + Cardinality({i \in 1..Len(th[k].log) :
                          th[k].log[i].prov = p /\ th[k].log[i].out \in outs})

\* the sends to provider p that ended with one of outs
Finished(p, outs) == CountLogs(Cardinality(Threads), p, outs)

\* the threads that are in a send to provider p at one of pcs
InFlightAt(p, pcs) == Cardinality({t \in Threads : th[t].pc \in pcs /\ th[t].prov = p})

\* the ledger's records of provider p
Records(p) == Cardinality({i \in 1..Len(requests) : requests[i].provider = p})

\* C12 as stated: every send attempt that reached the generation call has
\* appended exactly one usage record and updated the provider's rate-limiter
\* timestamp exactly once, also when the generation call or a later step failed.
C12_RecordPerAttempt ==
    \A p \in Providers :
        /\ Records(p) - InFlightAt(p, {"check"}) = Finished(p, SendOuts)
        /\ Len(grants[p])
             = Finished(p, SendOuts)
               + InFlightAt(p, {"gen", "track", "add", "append", "check"})

\* C12 amended: every send attempt that reached the generation call has updated
\* the provider's rate-limiter timestamp exactly once; it has appended exactly
\* one usage record if the generation call returned and the response's text
\* was read, also when check_budget then failed, and none if the generation
\* call or the reading of the text raised.
C12_RecordPerResponse ==
    \A p \in Providers :
        /\ Records(p) - InFlightAt(p, {"check"}) = Finished(p, {"returned", "budget"})
        /\ Len(grants[p])
             = Finished(p, SendOuts)
               + InFlightAt(p, {"gen", "track", "add", "append", "check"})

\* sends have ended in each of the three failures and one has returned
C12_Witness ==
    /\ mode = "seq"
    /\ \A o \in SendOuts : \E e \in LogEntries : e.out = o
    /\ Records("cohere") = 2 /\ Records("openai") = 0
    /\ Len(grants["openai"]) = 2 /\ Len(grants["cohere"]) = 3

\* the sends a call has invoked so far, in order: those that ended, and the
\* one it is in ("running")
Invoked(r) ==
    LET ended == [i \in 1..Len(r.log) |->
                    [phase |-> r.log[i].phase, prov |-> r.log[i].prov, out |-> r.log[i].out]]
    IN IF r.pc \in SendPcs
       THEN Append(ended, [phase |-> r.phase, prov |-> r.prov, out |-> "running"])
       ELSE ended

\* the sends of iv made for the preferred provider / for the alternate, in
\* ask_with_fallback and in the primary step of summarize_article
Preferred(iv) == {i \in 1..Len(iv) : iv[i].phase \in {"primary", "fb_primary"}}

Alternate(iv) == {i \in 1..Len(iv) : iv[i].phase \in {"fallback", "fb_alt"}}

\* C13: nothing is retried beyond one fallback hop: in one ask_with_fallback
\* call, and in the primary step of one summarize_article call, each provider's
\* send is invoked at most once, the alternate only after the preferred one
\* failed, and never when the preferred one succeeded.
C13_OneFallbackHop ==
    \A t \in Threads :
        LET iv == Invoked(th[t]) IN
        /\ Cardinality(Preferred(iv)) <= 1
        /\ Cardinality(Alternate(iv)) <= 1
        /\ \A p \in Providers :
              Cardinality({i \in Preferred(iv) \cup Alternate(iv) : iv[i].prov = p}) <= 1
        /\ \A j \in Alternate(iv) :
              /\ j = 2 /\ 1 \in Preferred(iv)
              /\ iv[1].out \in SendOuts \ {"returned"}
              /\ iv[j].prov = Other(iv[1].prov)
        /\ (iv # <<>> /\ iv[1].out = "returned") => Alternate(iv) = {}
        /\ mode = "fallback" => Len(iv) <= 2

\* an ask_with_fallback call on which both providers failed has raised after
\* two sends
C13_Witness ==
    /\ mode = "fallback"
    /\ th[1].pc = "raised"
    /\ Len(th[1].log) = 2
    /\ th[1].log[1].prov = "openai" /\ th[1].log[2].prov = "cohere"

\* C14: a batch run over a finite list of items (process_articles, and
\* process_articles_async for any max_concurrent >= 1) always terminates and
\* returns a result sequence, whatever subset of the items fails, provided
\* every provider call itself returns or raises.
C14_BatchTerminates == <>(batch = "returned")

\* a concurrent run on which every item failed has returned the empty list
C14_Witness ==
    /\ mode = "async" /\ batch = "returned"
    /\ n_articles = MaxAsyncArticles
    /\ \A a \in 1..n_articles : tasks[a].exc
    /\ results = <<>>

\* the pipeline of article a has ended / has ended with a result (it got to
\* its sentiment step, which never fails the pipeline)
Attempted(a) == item_log[a] # <<>>

Succeeded(a) == Attempted(a) /\ item_log[a][Len(item_log[a])].phase = "sentiment"

\* at every moment of a sequential run: the articles before the cursor have
\* been processed, those from the cursor on have not, the pipeline running is
\* the cursor's, and results holds the successful ones in input order
SequentialSoFar ==
    mode = "seq" =>
        /\ cursor \in 1..(n_articles + 1)
        /\ \A a \in Threads : Attempted(a) <=> a < cursor
        /\ th[1].pc # "idle" => (th[1].art = cursor /\ cursor <= n_articles)
        /\ batch = "returned" => cursor = n_articles + 1
        /\ \A i \in 1..Len(results) :
              /\ Succeeded(results[i].art)
              /\ results[i].summary
                   = item_log[results[i].art][PrimaryServed(item_log[results[i].art])].text
        /\ \A i, j \in 1..Len(results) : i < j => results[i].art < results[j].art
        /\ \A a \in 1..n_articles :
              Succeeded(a) => \E i \in 1..Len(results) : results[i].art = a

\* an article is processed once: its pipeline's history, once written, stays
ProcessedOnce == \A a \in Threads : Attempted(a) => item_log'[a] = item_log[a]

\* C15: in sequential mode process_articles attempts every item exactly once in
\* input order, a failed item never stops the processing of later items, and
\* the returned results are those of the successful items in their input order.
C15_SequentialOrder == []SequentialSoFar /\ [][ProcessedOnce]_vars

\* the first article failed, the second was processed and is the only result
C15_Witness ==
    /\ mode = "seq" /\ batch = "returned"
    /\ n_articles = 2
    /\ Attempted(1) /\ ~Succeeded(1) /\ Succeeded(2)
    /\ Len(results) = 1 /\ results[1].art = 2
    /\ results[1].summary_provider = "cohere"

\* C16: after any sequence of track_request calls, get_summary() reports
\* total_requests equal to the number of calls, total_cost equal to the sum of
\* the costs the calls returned, total_input_tokens and total_output_tokens
\* equal to the sums of the calls' token arguments, and average_cost equal to
\* total_cost divided by max(number of calls, 1): 0, with no division by zero,
\* on an empty ledger.
C16_Summary ==
    ret.op = "get_summary" =>
        /\ ret.total_requests = Len(calls)
        /\ ret.total_cost = SumOver(calls, "cost")
        /\ ret.total_input_tokens = SumOver(calls, "input_tokens")
        /\ ret.total_output_tokens = SumOver(calls, "output_tokens")
        /\ ret.average_cost.num = SumOver(calls, "cost")
        /\ ret.average_cost.den = Max(Len(calls), 1)
        /\ ret.average_cost.den > 0
        /\ Len(calls) = 0 => ret.average_cost.num = 0

\* a summary of three calls whose input and output totals differ
C16_Witness ==
    /\ ret.op = "get_summary"
    /\ ret.total_requests = MaxLedgerCalls
    /\ ret.total_input_tokens > ret.total_output_tokens
    /\ ret.total_output_tokens > 0
    /\ ret.average_cost.num > 0 /\ ret.average_cost.den = MaxLedgerCalls

\* one step leaves requests alone or appends one record at its end, and does
\* not lower total_cost
LedgerStep ==
    /\ \/ requests' = requests
       \/ /\ Len(requests') = Len(requests) + 1
          /\ SubSeq(requests', 1, Len(requests)) = requests
    /\ total_cost' >= total_cost

\* C17: the ledger is append-only and its total is monotone: each track_request
\* appends exactly one record at the end of requests, no operation
\* (track_request, get_summary, check_budget, ask_openai, ask_cohere,
\* ask_with_fallback) removes, reorders or modifies an existing record, and
\* total_cost never decreases.
C17_AppendOnlyMonotone == [][LedgerStep]_vars

\* C18: a gateway send (ask_openai / ask_cohere) fails with an error, and
\* returns no text, when the provider's generation call raises or when the
\* provider's response carries no output text.
C18_FailsWithoutText ==
    \A e \in LogEntries :
        e.gen \in {"error", "no_content"} => (e.out # "returned" /\ e.text = NoText)

\* the call ret reports went through the heuristic
Heuristic(r) == r.fn = "rough_token_estimate" \/ ~r.tokenizer_ok

\* C19: the token heuristic rough_token_estimate(text), which is also the
\* error fallback of count_tokens_openai, returns max(1, length // 4): 1 below
\* four characters, else the v with 4v <= length < 4v + 4; it is at least 1
\* for every non-empty string and non-decreasing in the string's length.
C19_Heuristic ==
    (ret.op = "tokens" /\ Heuristic(ret)) =>
        /\ ret.len < 4 => ret.value = 1
        /\ ret.len >= 4 => (4 * ret.value <= ret.len /\ ret.len < 4 * ret.value + 4)
        /\ ret.len > 0 => ret.value >= 1
        /\ (ret.prev.heuristic /\ ret.prev.len <= ret.len) => ret.prev.value <= ret.value
        /\ (ret.prev.heuristic /\ ret.prev.len >= ret.len) => ret.prev.value >= ret.value

\* the fallback of count_tokens_openai gives 1 for three characters and then
\* 2 for eight
C19_Witness ==
    /\ ret.op = "tokens"
    /\ ret.fn = "count_tokens_openai" /\ ~ret.tokenizer_ok
    /\ ret.len = 8 /\ ret.value = 2
    /\ ret.prev.heuristic /\ ret.prev.len = 3 /\ ret.prev.value = 1

\* the result res of a pipeline whose sends were lg names the provider that
\* served the summary and carries that send's text
NamesItsProvider(res, lg) ==
    LET openai_ok == lg[1].prov = "openai" /\ lg[1].out = "returned"
        cohere_ok == /\ lg[1].prov = "openai" /\ lg[1].out # "returned"
                     /\ lg[2].prov = "cohere" /\ lg[2].phase = "fallback"
                     /\ lg[2].out = "returned"
        served == IF openai_ok THEN lg[1] ELSE lg[2]
    IN /\ Len(lg) >= 2
       /\ (res.summary_provider = "openai") <=> openai_ok
       /\ (res.summary_provider = "cohere") <=> cohere_ok
       /\ openai_ok \/ cohere_ok
       /\ served.prov = res.summary_provider
       /\ res.summary = served.text
       /\ served.gen # "no_content" =>
              res.summary = Output(res.summary_provider, SummaryPrompt(res.art))

\* C20: the result of summarize_article names the provider that actually
\* produced the summary: summary_provider is "openai" exactly when the OpenAI
\* send succeeded, and "cohere" exactly when the OpenAI send failed and the
\* Cohere send succeeded, and summary is that provider's output.
C20_SummaryProvider ==
    /\ \A t \in Threads :
          (th[t].phase \in {"primary", "fallback", "sentiment"} /\ th[t].pc = "returned")
            => NamesItsProvider(ResultOf(th[t]), th[t].log)
    /\ \A i \in 1..Len(results) :
          NamesItsProvider(results[i], item_log[results[i].art])

\* a returned result whose summary Cohere produced after OpenAI failed
C20_Witness ==
    /\ mode = "seq"
    /\ Len(results) >= 1
    /\ results[1].summary_provider = "cohere"
    /\ results[1].summary = Output("cohere", SummaryPrompt(1))
    /\ item_log[1][1].out = "provider"
    /\ item_log[1][2].gen = "no_usage"

\* ----------------------------------------------------------------- C21..C25

\* the sentiment sends among the sends iv of one summarize_article call
Secondary(iv) == {i \in 1..Len(iv) : iv[i].phase = "sentiment"}

\* in the sends iv of one summarize_article call the sentiment step comes right
\* after a successful send of the primary step, is one send to Cohere, and is
\* the call's last send: the second when OpenAI served the summary, the third
\* when the summary fell back to Cohere
SentimentOnce(iv) ==
    /\ Len(iv) <= 3
    /\ Cardinality(Secondary(iv)) <= 1
    /\ \A i \in Secondary(iv) :
          /\ iv[i].prov = "cohere"
          /\ i = Len(iv)
          /\ i >= 2
          /\ iv[i - 1].phase \in {"primary", "fallback"} /\ iv[i - 1].out = "returned"
          /\ i = IF iv[1].out = "returned" THEN 2 ELSE 3

\* C21: the sentiment step of summarize_article is reached only after the
\* primary step succeeded, and it calls Cohere exactly once with no fallback to
\* OpenAI, whichever provider served the primary step; one item makes at most
\* three sends: two when OpenAI serves the summary, three when it fell back.
C21_SentimentStep ==
    /\ \A t \in Threads :
          th[t].phase \in {"primary", "fallback", "sentiment"} =>
            /\ SentimentOnce(Invoked(th[t]))
            /\ th[t].pc = "returned" =>
                  /\ Cardinality(Secondary(th[t].log)) = 1
                  /\ Len(th[t].log) = IF th[t].summary_provider = "openai" THEN 2 ELSE 3
            /\ th[t].pc = "raised" => Secondary(th[t].log) = {}
    /\ \A a \in Threads : SentimentOnce(item_log[a])

\* one item was served by OpenAI in two sends, the next fell back to Cohere
\* and took three, its sentiment call failing
C21_Witness ==
    /\ mode = "seq"
    /\ Len(item_log[1]) = 2 /\ item_log[1][2].phase = "sentiment"
    /\ Len(item_log[2]) = 3 /\ item_log[2][3].phase = "sentiment"
    /\ item_log[2][3].out = "provider"
    /\ Len(results) = 2 /\ results[2].sentiment = Sentinel

\* C22: the first rate-limiter acquisition for a provider on a fresh
\* LLMProviders never waits: with last_call initialised to 0.0 the first
\* _wait_openai / _wait_cohere returns without sleeping; a wait that sleeps
\* comes after a grant on its provider, and sleeps until one interval after
\* the timestamp it read.
C22_FirstNeverWaits ==
    \A t \in Threads :
        th[t].pc = "sleep" =>
            /\ grants[th[t].prov] # <<>>
            /\ \E i \in 1..Len(grants[th[t].prov]) :
                  th[t].wake = grants[th[t].prov][i] + Interval(th[t].prov)

\* the first acquisition on Cohere, made after OpenAI was used, has passed
\* its test without sleeping while a second OpenAI call would have to wait
C22_Witness ==
    /\ th[1].pc = "stamp" /\ th[1].prov = "cohere"
    /\ grants["cohere"] = <<>> /\ last_call["cohere"] = 0
    /\ grants["openai"] # <<>>
    /\ now - last_call["openai"] < Interval("openai")

\* the estimates a gateway may make of a text of len characters: OpenAI's
\* count_tokens_openai (tiktoken working or not), Cohere's rough_token_estimate
Estimates(prov, len) ==
    IF prov = "openai"
    THEN {count_tokens_openai(len, ok) : ok \in BOOLEAN}
    ELSE {rough_token_estimate(len)}

\* C23: in a gateway send the token counts recorded in the ledger are the
\* provider's reported usage when that is present, and otherwise the
\* estimates: of the prompt for the input tokens, of the output text for the
\* output tokens, decided for each of the two counts.
C23_UsageOrEstimate ==
    \A t \in Threads :
        th[t].pc \in {"track", "add", "append", "check"} =>
            LET r == th[t] IN
            /\ IF r.gen \in ReportsInput
               THEN r.rec.input_tokens = ReportedUsage.input
               ELSE r.rec.input_tokens \in Estimates(r.prov, TextLen(r.prompt))
            /\ IF r.gen \in ReportsOutput
               THEN r.rec.output_tokens = ReportedUsage.output
               ELSE r.rec.output_tokens \in Estimates(r.prov, TextLen(r.text))
            /\ r.pc = "check" => requests[Len(requests)] = r.rec

\* the send of log entry e found the budget reached at its check
HitBudget(e) == e.out = "budget"

\* the send of log entry e2 made its budget check after that of e1 did: the
\* ledger had grown in between
CheckedAfter(e2, e1) ==
    /\ e1.chk.nreq > 0
    /\ e2.chk.nreq > e1.chk.nreq

\* C24: once total_cost has reached the daily budget no later gateway send on
\* either provider returns a text: every later send that reaches its budget
\* check raises, so an item processed after that yields no result.
C24_BudgetLatches ==
    /\ \A e1, e2 \in LogEntries :
          (HitBudget(e1) /\ CheckedAfter(e2, e1)) => (HitBudget(e2) /\ e2.text = NoText)
    /\ mode = "seq" =>
          \A a, b \in 1..n_articles :
              (a < b /\ Attempted(b) /\ \E i \in 1..Len(item_log[a]) : HitBudget(item_log[a][i]))
                 => (~Succeeded(b) /\ \A i \in 1..Len(results) : results[i].art # b)

\* the number of ledger records when the last budget check of article a's
\* pipeline ran, or 0 if its last send raised before check_budget
LastCheck(a) == item_log[a][Len(item_log[a])].chk.nreq

\* C25: process_articles_async returns the results of the successful items in
\* the input order of those items, whatever order the concurrent pipelines
\* complete in.
C25_AsyncInputOrder ==
    (mode = "async" /\ batch = "returned") =>
        /\ \A i, j \in 1..Len(results) : i < j => results[i].art < results[j].art
        /\ \A a \in 1..n_articles :
              (~tasks[a].exc) <=> (\E i \in 1..Len(results) : results[i].art = a)
        /\ \A i \in 1..Len(results) :
              /\ results[i].art \in 1..n_articles
              /\ results[i] = tasks[results[i].art].value

\* both items succeeded, the second one's pipeline finished first, and the
\* results are in input order
C25_Witness ==
    /\ mode = "async" /\ batch = "returned"
    /\ n_articles = 2
    /\ Succeeded(1) /\ Succeeded(2)
    /\ LastCheck(2) > 0 /\ LastCheck(2) < LastCheck(1)
    /\ Len(results) = 2 /\ results[1].art = 1 /\ results[2].art = 2

====
